---- MODULE Spec2Model ----
(***************************************************************************)
(* A model of scripts/heic-decode.py: the HistogramCounter accumulator,    *)
(* the raw-buffer extractors (analyze_rgba_file, analyze_y4m_file), the    *)
(* tile crop selection of analyze_heic_file, the batch driver              *)
(* analyze_files and the device round trip decode_heic_using_imgapp.       *)
(*                                                                         *)
(* A HistogramCounter's bins (a Python dict value -> count) are a function *)
(* whose DOMAIN is the set of keys.  A Python exception (a failed assert,  *)
(* IndexError, ZeroDivisionError, UnboundLocalError, struct.error) is a    *)
(* result with ok = FALSE, or the control state "crashed".                 *)
(***************************************************************************)
EXTENDS Integers, Sequences, FiniteSets, TLC

VARIABLES
    \* ---- HistogramCounter objects (SpecHist)
    hist,       \* accumulator id -> bins
    raw,        \* accumulator id -> the samples folded in so far, in order (history)
    hphase,     \* "build", "stats" or "merged"
    stats,      \* what get_mean / get_stddev returned for the accumulator asked
    orders,     \* the bins obtained by merging the three accumulators in each order
    lastOp,     \* the last operation on an accumulator: "none", "add", "append" (history)
    \* ---- one call of analyze_rgba_file or analyze_y4m_file (SpecExtract)
    xkind,      \* "rgba" or "y4m": the function called ("idle": none)
    xwidth,     \* the declared width (an argument, or get_image_resolution's answer)
    xheight,    \* the declared height
    xcontents,  \* the bytes read from the file
    xrc,        \* the return codes of the external commands of analyze_y4m_file
    xpc,        \* "call" before the call, "returned" after it
    xresult,    \* what the call returned, or ok = FALSE when it raised
    \* ---- the crop selection of analyze_heic_file for one tile (SpecCrop)
    cgeom,      \* is_grid, the grid's fields and the tile's decoded width and height
    cpc,        \* "start" or "planned" ("idle": no crop selection)
    ctile,      \* the tile_id the crop was selected for
    ccrop,      \* the crop_filter selected
    \* ---- main / analyze_files over a list of images (Spec)
    mode,        \* "files": analyze_files (--infiles); "single": main on one infile
    infile_list, \* the names of the images, in order
    fi,          \* the 1-based position in infile_list of the image being analyzed
    pc,          \* the place in the code
    loc,         \* the locals of analyze_heic_file
    acc,         \* R, G, B, A, Y, U, V of the image being analyzed
    results,     \* analyze_files' results list
    csv,         \* the CSV file: written or not, and its rows
    printed,     \* the lines main printed
    failed,      \* a step of the current image's analysis has failed (history)
    \* ---- one call of decode_heic_using_imgapp (SpecDecode)
    dinfile,     \* the local infile: its st_size, and the width and height of its picture
    dpc,         \* the place in the code ("idle": no call)
    expected_size, \* the local expected_size (0 before it is assigned)
    dlast,       \* the last command run and what run() returned for it
    dsteps,      \* the adb commands other than polls started so far, in order (history)
    dseen        \* what the polls have observed so far (history)

histVars == <<hist, raw, hphase, stats, orders, lastOp>>
extractVars == <<xkind, xwidth, xheight, xcontents, xrc, xpc, xresult>>
cropVars == <<cgeom, cpc, ctile, ccrop>>
batchVars == <<mode, infile_list, fi, pc, loc, acc, results, csv, printed, failed>>
decodeVars == <<dinfile, dpc, expected_size, dlast, dsteps, dseen>>

vars == <<histVars, extractVars, cropVars, batchVars, decodeVars>>

\* ------------------------------------------------------------------ bounds

\* Sample values are 0..MaxSample (the code's bytes are 0..255).
MaxSample == 2
\* The total number of samples held by the three accumulators of SpecHist.
MaxLen == 4
\* The longest buffer handed to an extractor in SpecExtract.
MaxBuf == 8
\* The largest declared width and height in SpecExtract.
MaxDim == 2
\* SpecCrop: the largest tile width/height, rows_minus_one/columns_minus_one
\* and output width/height of the small geometries.
MaxTile == 3
MaxGridIdx == 2
MaxOut == 8
\* Spec: the longest list of images, and the width and height of a tile.
MaxFiles == 2
TileDim == 2
\* SpecDecode: the largest size in bytes of the local infile.
MaxStat == 2

Samples == 0..MaxSample
Accs == 1..3

\* ------------------------------------------------------------------ helpers

RECURSIVE SeqSum(_)
SeqSum(s) == IF s = <<>> THEN 0 ELSE Head(s) + SeqSum(Tail(s))

Range(s) == {s[i] : i \in 1..Len(s)}

EmptyBins == [k \in {} |-> 0]

\* ------------------------------------------------------------------ HistogramCounter

\* A slip in add: an existing bin is reset to 1 instead of incremented.
HistogramCounter_add_reset(bins, val) ==
    [k \in DOMAIN bins \cup {val} |-> IF k = val THEN 1 ELSE bins[k]]

\* add (lines 138-139): self.bins[val] = 1 if val not in self.bins else self.bins[val] + 1
HistogramCounter_add(bins, val) ==
    [k \in DOMAIN bins \cup {val} |->
        IF k = val
        THEN (IF val \in DOMAIN bins THEN bins[val] + 1 ELSE 1)
        ELSE bins[k]]

\* The body of append's loop for one key k of the argument (lines 143-145).
AppendKey(self, other, k) ==
    LET created == IF k \in DOMAIN self
                   THEN self
                   ELSE [j \in DOMAIN self \cup {k} |-> IF j = k THEN 0 ELSE self[j]]
    IN [created EXCEPT ![k] = @ + other[k]]

\* The loop of append over the keys of the argument still to visit (line 142).
RECURSIVE AppendLoop(_, _, _)
AppendLoop(self, other, keys) ==
    IF keys = {} THEN self
    ELSE LET k == CHOOSE x \in keys : TRUE
         IN AppendLoop(AppendKey(self, other, k), other, keys \ {k})

\* A slip in append: the argument's count replaces the receiver's count.
HistogramCounter_append_overwrite(self, other) ==
    [self  |-> [k \in DOMAIN self \cup DOMAIN other |->
                    IF k \in DOMAIN other THEN other[k] ELSE self[k]],
     other |-> other]

\* append (lines 141-145): both objects after self.append(other).  The code
\* only assigns to self.bins.
HistogramCounter_append(self, other) ==
    [self |-> AppendLoop(self, other, DOMAIN other), other |-> other]

\* The loop of get_mean (lines 149-153): s and number_sum over the bins.
RECURSIVE MeanLoop(_, _, _, _)
MeanLoop(bins, keys, s, number_sum) ==
    IF keys = {} THEN [s |-> s, number_sum |-> number_sum]
    ELSE LET val == CHOOSE x \in keys : TRUE
         IN MeanLoop(bins, keys \ {val}, s + bins[val] * val, number_sum + bins[val])

\* A slip in get_mean: the value is added once per bin, not once per sample.
HistogramCounter_get_mean_unweighted(bins) ==
    LET keys == DOMAIN bins
        n == Cardinality(keys)
        RECURSIVE KeySum(_)
        KeySum(ks) == IF ks = {} THEN 0
                      ELSE LET v == CHOOSE x \in ks : TRUE IN v + KeySum(ks \ {v})
    IN IF n = 0 THEN [ok |-> FALSE, s |-> 0, number_sum |-> 0]
       ELSE [ok |-> TRUE, s |-> KeySum(keys), number_sum |-> n]

\* get_mean (lines 147-155).  The mean is the real number s / number_sum, kept
\* as the pair; the division raises ZeroDivisionError when there are no bins.
HistogramCounter_get_mean(bins) ==
    LET r == MeanLoop(bins, DOMAIN bins, 0, 0)
    IN IF r.number_sum = 0
       THEN [ok |-> FALSE, s |-> 0, number_sum |-> 0]
       ELSE [ok |-> TRUE, s |-> r.s, number_sum |-> r.number_sum]

\* The loop of get_stddev (lines 160-164) with mean = ms / mn.  t is kept
\* scaled by mn^2, so that it stays an integer:
\*   number * (val - ms/mn)^2 * mn^2 = number * (val*mn - ms)^2.
RECURSIVE StddevLoop(_, _, _, _, _, _)
StddevLoop(bins, keys, ms, mn, t, number_sum) ==
    IF keys = {} THEN [t |-> t, number_sum |-> number_sum]
    ELSE LET val == CHOOSE x \in keys : TRUE
             d == val * mn - ms
         IN StddevLoop(bins, keys \ {val}, ms, mn,
                       t + bins[val] * d * d, number_sum + bins[val])

\* get_stddev (lines 157-166): stddev = sqrt(t / number_sum), with t scaled as
\* above: stddev^2 = tScaled / (number_sum * mean.number_sum^2).
HistogramCounter_get_stddev(bins) ==
    LET mean == HistogramCounter_get_mean(bins)
    IN IF ~mean.ok
       THEN [ok |-> FALSE, tScaled |-> 0, number_sum |-> 0]
       ELSE LET r == StddevLoop(bins, DOMAIN bins, mean.s, mean.number_sum, 0, 0)
            IN [ok |-> TRUE, tScaled |-> r.t, number_sum |-> r.number_sum]

\* ------------------------------------------------------------------ idle parts
\* Each specification runs one part of the program; the variables of the
\* other parts stay at these values.

NoCrop == [set |-> FALSE, w |-> 0, h |-> 0]

NoStats == [acc |-> 0, mean |-> [ok |-> FALSE, s |-> 0, number_sum |-> 0],
            stddev |-> [ok |-> FALSE, tScaled |-> 0, number_sum |-> 0]]
NoOrders == [ab_c |-> EmptyBins, a_bc |-> EmptyBins, ac_b |-> EmptyBins,
             ba_c |-> EmptyBins, cb_a |-> EmptyBins,
             argB |-> EmptyBins, argC |-> EmptyBins]

HistIdle ==
    /\ hist = [i \in Accs |-> EmptyBins]
    /\ raw = [i \in Accs |-> <<>>]
    /\ hphase = "idle"
    /\ stats = NoStats
    /\ orders = NoOrders
    /\ lastOp = "none"

ExtractIdle ==
    /\ xkind = "idle"
    /\ xwidth = 0
    /\ xheight = 0
    /\ xcontents = <<>>
    /\ xrc = <<0, 0>>
    /\ xpc = "idle"
    /\ xresult = [ok |-> FALSE]

NoGeom == [is_grid |-> FALSE, rows_minus_one |-> 0, columns_minus_one |-> 0,
           output_width |-> 0, output_height |-> 0, width |-> 0, height |-> 0]

CropIdle ==
    /\ cgeom = NoGeom
    /\ cpc = "idle"
    /\ ctile = -1
    /\ ccrop = NoCrop

\* A channel of analyze_file's result: a HistogramCounter, or None.
Hist(bins) == [none |-> FALSE, bins |-> bins]
None == [none |-> TRUE, bins |-> EmptyBins]

Channels == {"R", "G", "B", "A", "Y", "U", "V"}

\* R = G = B = A = Y = U = V = None (line 392)
AllNone == [c \in Channels |-> None]

\* The locals of analyze_heic_file before it runs.  fmt_rem is
\* grid_unpack_fmt_rem, "unbound" while no assignment has reached it, as are
\* the grid fields before the first grid item is parsed.
NoLoc == [item_list |-> <<>>, gi |-> 0, ti |-> 0, tile_id |-> -1, is_grid |-> FALSE,
          fmt_rem |-> "unbound", grid_bound |-> FALSE,
          rows_minus_one |-> 0, columns_minus_one |-> 0,
          output_width |-> 0, output_height |-> 0,
          width |-> 0, height |-> 0, crop |-> NoCrop]

BatchIdle ==
    /\ mode = "idle"
    /\ infile_list = <<>>
    /\ fi = 0
    /\ pc = "idle"
    /\ loc = NoLoc
    /\ acc = AllNone
    /\ results = <<>>
    /\ csv = [written |-> FALSE, rows |-> <<>>]
    /\ printed = <<>>
    /\ failed = FALSE

\* What run() returned for a command: cmd names the command; no_such_file is
\* b"No such file or directory" in err; size is int(out) of a stat.
CommandResult(cmd, returncode, no_such_file, size) ==
    [cmd |-> cmd, returncode |-> returncode, no_such_file |-> no_such_file, size |-> size]

NoCommand == CommandResult("none", 0, FALSE, 0)
NothingSeen == [infile |-> FALSE, outfile |-> FALSE, no_such_file |-> FALSE]

DecodeIdle ==
    /\ dinfile = [st_size |-> 0, width |-> 0, height |-> 0]
    /\ dpc = "idle"
    /\ expected_size = 0
    /\ dlast = NoCommand
    /\ dsteps = <<>>
    /\ dseen = NothingSeen

\* ------------------------------------------------------------------ extractors

NoBins4 == [R |-> EmptyBins, G |-> EmptyBins, B |-> EmptyBins, A |-> EmptyBins]
NoBins3 == [Y |-> EmptyBins, U |-> EmptyBins, V |-> EmptyBins]

\* The while loop of analyze_rgba_file (lines 178-186) from the 0-based index
\* i: four reads contents[i] .. contents[i+3] per turn; a read past the end
\* raises IndexError.
RECURSIVE RgbaLoop(_, _, _)
RgbaLoop(contents, i, h) ==
    IF ~(i < Len(contents)) THEN [ok |-> TRUE] @@ h
    ELSE IF i + 3 >= Len(contents) THEN [ok |-> FALSE] @@ NoBins4
    ELSE RgbaLoop(contents, i + 4,
                  [R |-> HistogramCounter_add(h.R, contents[i + 1]),
                   G |-> HistogramCounter_add(h.G, contents[i + 2]),
                   B |-> HistogramCounter_add(h.B, contents[i + 3]),
                   A |-> HistogramCounter_add(h.A, contents[i + 4])])

\* analyze_rgba_file (lines 169-187).  width and height are parameters the
\* body never reads.
analyze_rgba_file(contents, width, height) ==
    RgbaLoop(contents, 0, NoBins4)

\* One plane loop of analyze_y4m_file (lines 205-210): for i in range(n):
\* H.add(contents[i + offset]); a read past the end raises IndexError.
RECURSIVE PlaneLoop(_, _, _, _, _)
PlaneLoop(contents, offset, n, i, h) ==
    IF i >= n THEN [ok |-> TRUE, bins |-> h]
    ELSE IF i + offset >= Len(contents) THEN [ok |-> FALSE, bins |-> EmptyBins]
    ELSE PlaneLoop(contents, offset, n, i + 1,
                   HistogramCounter_add(h, contents[i + offset + 1]))

\* analyze_y4m_file (lines 190-211).  rc_probe is the return code of
\* get_image_resolution's command, which answers (width, height); rc_ffmpeg
\* that of the conversion to yuv444p; contents the bytes of the converted file.
analyze_y4m_file(rc_probe, width, height, rc_ffmpeg, contents) ==
    LET plane_length == width * height
        y == PlaneLoop(contents, 0, plane_length, 0, EmptyBins)
        u == PlaneLoop(contents, plane_length, plane_length, 0, EmptyBins)
        v == PlaneLoop(contents, 2 * plane_length, plane_length, 0, EmptyBins)
    IN IF rc_probe # 0 \/ rc_ffmpeg # 0 \/ ~y.ok \/ ~u.ok \/ ~v.ok
       THEN [ok |-> FALSE] @@ NoBins3
       ELSE [ok |-> TRUE, Y |-> y.bins, U |-> u.bins, V |-> v.bins]

\* ------------------------------------------------------------------ SpecExtract

Buffers == UNION {[1..n -> Samples] : n \in 0..MaxBuf}

\* A call of an extractor about to be made, on any buffer and any declared size.
InitExtract ==
    /\ xkind \in {"rgba", "y4m"}
    /\ xwidth \in 1..MaxDim
    /\ xheight \in 1..MaxDim
    /\ xcontents \in Buffers
    /\ xrc = <<0, 0>>
    /\ xpc = "call"
    /\ xresult = [ok |-> FALSE]
    /\ HistIdle /\ CropIdle /\ BatchIdle /\ DecodeIdle

\* R, G, B, A = analyze_rgba_file(infile, width, height, debug)
CallAnalyzeRgba ==
    /\ xpc = "call"
    /\ xkind = "rgba"
    /\ xpc' = "returned"
    /\ xresult' = analyze_rgba_file(xcontents, xwidth, xheight)
    /\ UNCHANGED <<xkind, xwidth, xheight, xcontents, xrc, histVars, cropVars, batchVars, decodeVars>>

\* Y, U, V = analyze_y4m_file(infile, debug), the two external commands
\* returning rc_probe and rc_ffmpeg.
CallAnalyzeY4m(rc_probe, rc_ffmpeg) ==
    /\ xpc = "call"
    /\ xkind = "y4m"
    /\ xpc' = "returned"
    /\ xrc' = <<rc_probe, rc_ffmpeg>>
    /\ xresult' = analyze_y4m_file(rc_probe, xwidth, xheight, rc_ffmpeg, xcontents)
    /\ UNCHANGED <<xkind, xwidth, xheight, xcontents, histVars, cropVars, batchVars, decodeVars>>

NextExtract ==
    \/ CallAnalyzeRgba
    \/ \E rc_probe \in {0, 1}, rc_ffmpeg \in {0, 1} : CallAnalyzeY4m(rc_probe, rc_ffmpeg)

SpecExtract == InitExtract /\ [][NextExtract]_vars

\* ------------------------------------------------------------------ crop selection

Crop(w, h) == [set |-> TRUE, w |-> w, h |-> h]

\* lines 327-328
is_last_column(tile_id, columns_minus_one) ==
    tile_id % (columns_minus_one + 1) = columns_minus_one

\* lines 330-331
is_last_row(tile_id, columns_minus_one, rows_minus_one) ==
    tile_id >= (columns_minus_one + 1) * rows_minus_one

\* lines 333-336
is_last_tile(tile_id, columns_minus_one, rows_minus_one) ==
    \/ is_last_column(tile_id, columns_minus_one)
    \/ is_last_row(tile_id, columns_minus_one, rows_minus_one)

\* The crop_filter of lines 317-345 for the tile tile_id of decoded size
\* width x height: "" is NoCrop, "-vf crop=W:H:x=0:y=0" is Crop(W, H).
crop_filter(tile_id, width, height, is_grid, g) ==
    IF ~is_grid THEN NoCrop
    ELSE LET width_last_column ==
                 width + g.output_width - width * (g.columns_minus_one + 1)
             height_last_column ==
                 height + g.output_height - height * (g.rows_minus_one + 1)
         IN IF is_last_tile(tile_id, g.columns_minus_one, g.rows_minus_one)
            THEN Crop(width_last_column, height_last_column)
            ELSE IF is_last_column(tile_id, g.columns_minus_one)
            THEN Crop(width_last_column, height)
            ELSE IF is_last_row(tile_id, g.columns_minus_one, g.rows_minus_one)
            THEN Crop(width, height_last_column)
            ELSE NoCrop

\* ------------------------------------------------------------------ SpecCrop

\* The grid of the specification's example: 2 x 2 tiles of 200 x 200 on a
\* 300 x 300 canvas.
ExampleGeom == [is_grid |-> TRUE, rows_minus_one |-> 1, columns_minus_one |-> 1,
                output_width |-> 300, output_height |-> 300,
                width |-> 200, height |-> 200]

SmallGeoms ==
    [is_grid : BOOLEAN, rows_minus_one : 0..MaxGridIdx, columns_minus_one : 0..MaxGridIdx,
     output_width : 1..MaxOut, output_height : 1..MaxOut,
     width : 1..MaxTile, height : 1..MaxTile]

\* A tile about to be planned: any small grid and tile size, or the example.
InitCrop ==
    /\ cgeom \in SmallGeoms \cup {ExampleGeom}
    /\ cpc = "start"
    /\ ctile = -1
    /\ ccrop = NoCrop
    /\ HistIdle /\ ExtractIdle /\ BatchIdle /\ DecodeIdle

\* The crop selection for the tile tile_id of the grid.
PlanCrop(tile_id) ==
    /\ cpc = "start"
    /\ cpc' = "planned"
    /\ ctile' = tile_id
    /\ ccrop' = crop_filter(tile_id, cgeom.width, cgeom.height, cgeom.is_grid, cgeom)
    /\ UNCHANGED <<cgeom, histVars, extractVars, batchVars, decodeVars>>

NextCrop ==
    \E tile_id \in 0..((cgeom.rows_minus_one + 1) * (cgeom.columns_minus_one + 1) - 1) :
        PlanCrop(tile_id)

SpecCrop == InitCrop /\ [][NextCrop]_vars

\* ------------------------------------------------------------------ the images

\* Tiles are TileDim x TileDim; a 2 x 2 grid of them covers a canvas of
\* OutDim x OutDim, the last column and row showing TileDim - 1 of a tile.
OutDim == 2 * TileDim - 1

\* An integer as two / four big-endian bytes.
U16(x) == <<x \div 256, x % 256>>
U32(x) == <<0, 0>> \o U16(x)

\* A grid item's bytes (ISO/IEC 23008-12 6.6.2.3.2): version, flags,
\* rows_minus_one, columns_minus_one, output_width, output_height.
GridBlob16(r, c, w, h) == <<0, 0, r, c>> \o U16(w) \o U16(h)
GridBlob32(r, c, w, h) == <<0, 1, r, c>> \o U32(w) \o U32(h)
GridBlobFlags2(r, c, w, h) == <<0, 2, r, c>> \o U16(w) \o U16(h)

\* Items of a HEIC file as isobmff-parse.py lists them: a tile ("hvc1", its
\* decoded picture one fill value), a grid (its bytes), or something else.
Tile(fill) == [item_type |-> "hvc1", fill |-> fill, data |-> <<>>]
Grid(blob) == [item_type |-> "grid", fill |-> 0, data |-> blob]
Exif == [item_type |-> "Exif", fill |-> 0, data |-> <<>>]

Grid2x2 == Grid(GridBlob16(1, 1, OutDim, OutDim))
FourTiles == <<Tile(1), Tile(2), Tile(3), Tile(4)>>

\* The images of the model: name -> what the external tools report of it.
\* mime is magic's answer; items the HEIC item list; width, height and fill the
\* decoded picture (of each tile, for a HEIC file).
Image(mime, items, w, h, fill) ==
    [mime |-> mime, items |-> items, width |-> w, height |-> h, fill |-> fill]

Name(root, ext) == [root |-> root, ext |-> ext]

ImageNames == {Name("grid_last", ".heic"), Name("grid_first", ".heic"),
               Name("exif_between", ".heic"), Name("single", ".heic"),
               Name("no_items", ".heic"), Name("flags2", ".heic"),
               Name("grid32", ".heic"), Name("two_grids", ".heic"),
               Name("photo", ".jpg"), Name("icon", ".png"),
               Name("notes", ".txt"), Name("dump", ".rgba")}

Catalogue(name) ==
    CASE name.root = "grid_last" ->
           Image("image/heic", FourTiles \o <<Grid2x2>>, TileDim, TileDim, 0)
      [] name.root = "grid_first" ->
           Image("image/heic", <<Grid2x2>> \o FourTiles, TileDim, TileDim, 0)
      [] name.root = "exif_between" ->
           Image("image/heic",
                 <<Tile(1), Exif, Tile(2), Tile(3), Tile(4), Grid2x2>>,
                 TileDim, TileDim, 0)
      [] name.root = "single" ->
           Image("image/heic", <<Tile(3)>>, TileDim, TileDim, 0)
      [] name.root = "no_items" ->
           Image("image/heic", <<>>, TileDim, TileDim, 0)
      [] name.root = "flags2" ->
           Image("image/heic",
                 <<Grid(GridBlobFlags2(0, 0, TileDim, TileDim)), Tile(1)>>,
                 TileDim, TileDim, 0)
      [] name.root = "grid32" ->
           Image("image/heic",
                 <<Tile(1), Tile(2), Grid(GridBlob32(0, 1, OutDim, TileDim))>>,
                 TileDim, TileDim, 0)
      [] name.root = "two_grids" ->
           Image("image/heic",
                 <<Grid(GridBlob16(0, 1, OutDim, TileDim)),
                   Grid(GridBlobFlags2(0, 0, TileDim, TileDim)), Tile(1), Tile(2)>>,
                 TileDim, TileDim, 0)
      [] name.root = "photo" -> Image("image/jpeg", <<>>, TileDim, 1, 5)
      [] name.root = "icon" -> Image("image/png", <<>>, 1, TileDim, 6)
      [] name.root = "notes" -> Image("text/plain", <<>>, 0, 0, 0)
      [] name.root = "dump" -> Image("application/octet-stream", <<>>, TileDim, 1, 7)

\* A decoded picture of w x h pixels of one value: the bytes of its raw file
\* with bpp bytes per pixel (4: rgba, 3: yuv444p).
RawFile(w, h, bpp, fill) == [i \in 1..(bpp * w * h) |-> fill]

\* Python values of different types, to compare them as == does.
PyStr(s) == [tag |-> "str", s |-> s]
PyTuple2(a, b) == [tag |-> "tuple", a |-> a, b |-> b]

\* os.path.splitext(infile): the pair (root, ext), ext with its dot.
os_path_splitext(infile) == PyTuple2(infile.root, infile.ext)

\* ------------------------------------------------------------------ analyze_file

\* The branch analyze_file takes (lines 380-392).  file_extension is the
\* whole pair splitext returns, compared with the string "rgba".
analyze_file_branch(infile) ==
    LET file_extension == os_path_splitext(infile)
        mime_type == Catalogue(infile).mime
    IN IF file_extension = PyStr("rgba") THEN "rgba"
       ELSE IF mime_type = "image/heic" THEN "heic"
       ELSE IF mime_type = "image/jpeg" THEN "jpeg"
       ELSE IF mime_type = "image/png" THEN "png"
       ELSE "none"

\* A slip: the failed command is ignored.
assert_returncode_ignored(returncode, next) == next

\* assert returncode == 0, "error: %s" % err (lines 264, 281, 310, ...): the
\* place the code goes on to, "crashed" when the AssertionError is raised.
assert_returncode(returncode, next) ==
    IF returncode = 0 THEN next ELSE "crashed"

\* The bytes b as a big-endian unsigned integer (struct's ">H", ">I").
RECURSIVE BigEndian(_)
BigEndian(b) ==
    IF b = <<>> THEN 0 ELSE BigEndian(SubSeq(b, 1, Len(b) - 1)) * 256 + b[Len(b)]

\* The parse of one grid item (lines 283-296), l the locals before it.
\* struct.unpack raises struct.error unless the bytes are exactly the
\* format's size; a flags value other than 0 and 1 leaves grid_unpack_fmt_rem
\* as it was, and reading it unbound raises UnboundLocalError.
parse_grid(l, grid_contents) ==
    IF Len(grid_contents) < 4 THEN [ok |-> FALSE, loc |-> l]
    ELSE LET flags == grid_contents[2]
             fmt == IF flags = 0 THEN ">HH" ELSE IF flags = 1 THEN ">II" ELSE l.fmt_rem
             size == IF fmt = ">HH" THEN 2 ELSE 4
             rem == SubSeq(grid_contents, 5, Len(grid_contents))
             l1 == [l EXCEPT !.rows_minus_one = grid_contents[3],
                             !.columns_minus_one = grid_contents[4],
                             !.fmt_rem = fmt]
         IN IF fmt = "unbound" \/ Len(rem) # 2 * size
            THEN [ok |-> FALSE, loc |-> l1]
            ELSE [ok |-> TRUE,
                  loc |-> [l1 EXCEPT !.grid_bound = TRUE,
                                     !.output_width = BigEndian(SubSeq(rem, 1, size)),
                                     !.output_height =
                                         BigEndian(SubSeq(rem, size + 1, 2 * size))]]

\* round(s / n) for s >= 0, n > 0: Python rounds a half to the even integer.
round(s, n) ==
    LET q == s \div n
        r == s % n
    IN IF 2 * r < n THEN q
       ELSE IF 2 * r > n THEN q + 1
       ELSE IF q % 2 = 0 THEN q ELSE q + 1

\* One channel of parse_histograms (lines 398-402): (mean, stddev) of a
\* HistogramCounter, (None, None) of None.  ok is FALSE when get_mean raises.
channel_stats(ch) ==
    IF ch.none
    THEN [ok |-> TRUE, none |-> TRUE, mean |-> 0, tScaled |-> 0, number_sum |-> 0]
    ELSE LET m == HistogramCounter_get_mean(ch.bins)
             d == HistogramCounter_get_stddev(ch.bins)
         IN IF ~m.ok
            THEN [ok |-> FALSE, none |-> FALSE, mean |-> 0, tScaled |-> 0, number_sum |-> 0]
            ELSE [ok |-> TRUE, none |-> FALSE, mean |-> round(m.s, m.number_sum),
                  tScaled |-> d.tScaled, number_sum |-> d.number_sum]

\* parse_histograms (lines 396-448).
parse_histograms(a) ==
    LET st == [c \in Channels |-> channel_stats(a[c])]
    IN [ok |-> \A c \in Channels : st[c].ok, stats |-> st]

\* x.append(tmp) for the channels cs of the accumulators a (lines 357-359, 372-375).
append_channels(a, tmp, cs) ==
    [c \in Channels |->
        IF c \in cs
        THEN Hist(HistogramCounter_append(a[c].bins, tmp[c]).self)
        ELSE a[c]]

\* ------------------------------------------------------------------ Spec: main / analyze_files

\* assert after assert: the first failed command raises.
RECURSIVE assert_all(_, _)
assert_all(rcs, next) ==
    IF rcs = <<>> THEN next
    ELSE assert_returncode(Head(rcs), assert_all(Tail(rcs), next))

CurrentName == infile_list[fi]
CurrentImage == Catalogue(CurrentName)
CurrentItem == loc.item_list[loc.ti]

\* The number of tiles ("hvc1" items) before the item the tile loop is at.
TilesBefore == Cardinality({j \in 1..(loc.ti - 1) : loc.item_list[j].item_type = "hvc1"})

\* ffmpeg's crop filter rejects a size that is not positive or exceeds the
\* picture's.
CropAccepted(crop, width, height) ==
    /\ crop.w > 0 /\ crop.h > 0
    /\ crop.w <= width /\ crop.h <= height

\* The size of the picture the tile's samples are taken from.
TileOutW == IF loc.crop.set THEN loc.crop.w ELSE loc.width
TileOutH == IF loc.crop.set THEN loc.crop.h ELSE loc.height

\* main with --infiles (lines 735-742) or with one infile (lines 751-763).
Init ==
    /\ mode \in {"files", "single"}
    /\ infile_list \in UNION {[1..n -> ImageNames] : n \in 1..MaxFiles}
    /\ mode = "single" => Len(infile_list) = 1
    /\ fi = 1
    /\ pc = "next_file"
    /\ loc = NoLoc
    /\ acc = AllNone
    /\ results = <<>>
    /\ csv = [written |-> FALSE, rows |-> <<>>]
    /\ printed = <<>>
    /\ failed = FALSE
    /\ HistIdle /\ ExtractIdle /\ CropIdle /\ DecodeIdle

\* analyze_file's dispatch for the next image of the list (lines 461-462,
\* 379-392); analyze_heic_file starts with seven empty accumulators (254-260).
AnalyzeFile ==
    /\ pc = "next_file"
    /\ fi <= Len(infile_list)
    /\ LET br == analyze_file_branch(CurrentName)
       IN /\ pc' = CASE br = "heic" -> "heic_list"
                     [] br \in {"rgba", "jpeg", "png"} -> "convert"
                     [] OTHER -> "returned"
          /\ acc' = IF br = "heic" THEN [c \in Channels |-> Hist(EmptyBins)] ELSE AllNone
    /\ loc' = NoLoc
    /\ failed' = FALSE
    /\ UNCHANGED <<mode, infile_list, fi, results, csv, printed,
                   histVars, extractVars, cropVars, decodeVars>>

\* analyze_rgba_file, analyze_jpeg_file (lines 214-230) or analyze_png_file
\* (lines 233-249) as analyze_file's branch says; rcs are the return codes of
\* the external commands in the order the function runs them.
AnalyzeConverted(rcs) ==
    /\ pc = "convert"
    /\ LET img == CurrentImage
           br == analyze_file_branch(CurrentName)
           yuv == RawFile(img.width, img.height, 3, img.fill)
           rgba == RawFile(img.width, img.height, 4, img.fill)
           r == analyze_rgba_file(rgba, img.width, img.height)
           y == IF br = "jpeg"
                THEN analyze_y4m_file(rcs[3], img.width, img.height, rcs[4], yuv)
                ELSE analyze_y4m_file(rcs[4], img.width, img.height, rcs[5], yuv)
           own == IF br = "jpeg" THEN <<rcs[1], rcs[2], rcs[5]>>
                  ELSE IF br = "png" THEN <<rcs[1], rcs[2], rcs[3]>>
                  ELSE <<>>
           yok == br = "rgba" \/ y.ok
       IN /\ pc' = assert_all(own, IF yok /\ r.ok THEN "returned" ELSE "crashed")
          /\ failed' = ((\E i \in 1..Len(own) : own[i] # 0) \/ ~yok \/ ~r.ok)
          /\ acc' = IF failed' THEN acc
                    ELSE [c \in Channels |->
                            IF c \in {"R", "G", "B", "A"} THEN Hist(r[c])
                            ELSE IF br = "rgba" THEN None ELSE Hist(y[c])]
    /\ UNCHANGED <<mode, infile_list, fi, loc, results, csv, printed,
                   histVars, extractVars, cropVars, decodeVars>>

\* isobmff-parse.py --list-items and the item list (lines 262-275).
ListItems(rc) ==
    /\ pc = "heic_list"
    /\ pc' = assert_returncode(rc, "heic_grid")
    /\ failed' = (rc # 0)
    /\ loc' = [loc EXCEPT !.item_list = CurrentImage.items, !.gi = 1]
    /\ UNCHANGED <<mode, infile_list, fi, acc, results, csv, printed,
                   histVars, extractVars, cropVars, decodeVars>>

\* The grid loop at an item that is no grid (lines 276-277).
GridSkip ==
    /\ pc = "heic_grid"
    /\ loc.gi <= Len(loc.item_list)
    /\ loc.item_list[loc.gi].item_type # "grid"
    /\ loc' = [loc EXCEPT !.gi = @ + 1]
    /\ UNCHANGED <<mode, infile_list, fi, pc, acc, results, csv, printed, failed,
                   histVars, extractVars, cropVars, decodeVars>>

\* The grid loop at a grid item: extract it and parse it (lines 277-296).
GridParse(rc) ==
    /\ pc = "heic_grid"
    /\ loc.gi <= Len(loc.item_list)
    /\ loc.item_list[loc.gi].item_type = "grid"
    /\ LET p == parse_grid(loc, loc.item_list[loc.gi].data)
       IN /\ pc' = assert_returncode(rc, IF p.ok THEN "heic_grid" ELSE "crashed")
          /\ failed' = (rc # 0 \/ ~p.ok)
          /\ loc' = IF rc # 0 THEN [loc EXCEPT !.is_grid = TRUE, !.gi = @ + 1]
                    ELSE [p.loc EXCEPT !.is_grid = TRUE, !.gi = @ + 1]
    /\ UNCHANGED <<mode, infile_list, fi, acc, results, csv, printed,
                   histVars, extractVars, cropVars, decodeVars>>

\* The end of the grid loop; tile_id = -1 (lines 298-301).
GridDone ==
    /\ pc = "heic_grid"
    /\ loc.gi > Len(loc.item_list)
    /\ pc' = "heic_tiles"
    /\ loc' = [loc EXCEPT !.ti = 1, !.tile_id = -1]
    /\ UNCHANGED <<mode, infile_list, fi, acc, results, csv, printed, failed,
                   histVars, extractVars, cropVars, decodeVars>>

\* The tile loop at an item that is no tile (lines 302-306).
TileSkip ==
    /\ pc = "heic_tiles"
    /\ loc.ti <= Len(loc.item_list)
    /\ CurrentItem.item_type # "hvc1"
    /\ loc' = [loc EXCEPT !.tile_id = @ + 1, !.ti = @ + 1]
    /\ UNCHANGED <<mode, infile_list, fi, pc, acc, results, csv, printed, failed,
                   histVars, extractVars, cropVars, decodeVars>>

\* The tile loop at a tile: tile_id += 1 and MP4Box -dump-item (lines 302-310).
TileMp4box(rc) ==
    /\ pc = "heic_tiles"
    /\ loc.ti <= Len(loc.item_list)
    /\ CurrentItem.item_type = "hvc1"
    /\ loc' = [loc EXCEPT !.tile_id = @ + 1]
    /\ pc' = assert_returncode(rc, "t_toy4m")
    /\ failed' = (rc # 0)
    /\ UNCHANGED <<mode, infile_list, fi, acc, results, csv, printed,
                   histVars, extractVars, cropVars, decodeVars>>

\* ffmpeg to a y4m file (lines 312-314).
TileToY4m(rc) ==
    /\ pc = "t_toy4m"
    /\ pc' = assert_returncode(rc, "t_probe")
    /\ failed' = (rc # 0)
    /\ UNCHANGED <<mode, infile_list, fi, loc, acc, results, csv, printed,
                   histVars, extractVars, cropVars, decodeVars>>

\* get_image_resolution of the tile and the selection of crop_filter
\* (lines 316-345).
TileProbe(rc) ==
    /\ pc = "t_probe"
    /\ LET width == CurrentImage.width
           height == CurrentImage.height
           crop == crop_filter(loc.tile_id, width, height, loc.is_grid, loc)
       IN /\ loc' = IF rc # 0 THEN loc
                    ELSE [loc EXCEPT !.width = width, !.height = height, !.crop = crop]
          /\ pc' = assert_returncode(rc, IF crop.set THEN "t_crop" ELSE "t_yuv")
    /\ failed' = (rc # 0)
    /\ UNCHANGED <<mode, infile_list, fi, acc, results, csv, printed,
                   histVars, extractVars, cropVars, decodeVars>>

\* ffmpeg with the crop filter, to the cropped y4m file (lines 347-353).
TileCrop(rc) ==
    /\ pc = "t_crop"
    /\ CropAccepted(loc.crop, loc.width, loc.height) \/ rc # 0
    /\ pc' = assert_returncode(rc, "t_yuv")
    /\ failed' = (rc # 0)
    /\ UNCHANGED <<mode, infile_list, fi, loc, acc, results, csv, printed,
                   histVars, extractVars, cropVars, decodeVars>>

\* analyze_y4m_file of the (cropped) tile and the merge of Y, U, V
\* (lines 354-359).
TileYuv(rc_probe, rc_ffmpeg) ==
    /\ pc = "t_yuv"
    /\ LET y == analyze_y4m_file(rc_probe, TileOutW, TileOutH, rc_ffmpeg,
                                 RawFile(TileOutW, TileOutH, 3, CurrentItem.fill))
       IN /\ pc' = IF y.ok THEN "t_rgba" ELSE "crashed"
          /\ failed' = ~y.ok
          /\ acc' = IF y.ok THEN append_channels(acc, y, {"Y", "U", "V"}) ELSE acc
    /\ UNCHANGED <<mode, infile_list, fi, loc, results, csv, printed,
                   histVars, extractVars, cropVars, decodeVars>>

\* ffmpeg to the rgba file, with the crop filter; analyze_rgba_file and the
\* merge of R, G, B, A; on to the next item (lines 361-375).
TileRgba(rc) ==
    /\ pc = "t_rgba"
    /\ (~loc.crop.set) \/ CropAccepted(loc.crop, loc.width, loc.height) \/ rc # 0
    /\ LET r == analyze_rgba_file(RawFile(TileOutW, TileOutH, 4, CurrentItem.fill),
                                  loc.width, loc.height)
       IN /\ pc' = assert_returncode(rc, IF r.ok THEN "heic_tiles" ELSE "crashed")
          /\ failed' = (rc # 0 \/ ~r.ok)
          /\ acc' = IF failed' THEN acc
                    ELSE append_channels(acc, r, {"R", "G", "B", "A"})
          /\ loc' = IF failed' THEN loc ELSE [loc EXCEPT !.ti = @ + 1]
    /\ UNCHANGED <<mode, infile_list, fi, results, csv, printed,
                   histVars, extractVars, cropVars, decodeVars>>

\* The end of the tile loop: return R, G, B, A, Y, U, V (line 376).
HeicReturn ==
    /\ pc = "heic_tiles"
    /\ loc.ti > Len(loc.item_list)
    /\ pc' = "returned"
    /\ UNCHANGED <<mode, infile_list, fi, loc, acc, results, csv, printed, failed,
                   histVars, extractVars, cropVars, decodeVars>>

\* analyze_files: if R is None: continue (lines 463-464).
SkipUnsupported ==
    /\ pc = "returned"
    /\ mode = "files"
    /\ acc["R"].none
    /\ pc' = "next_file"
    /\ fi' = fi + 1
    /\ UNCHANGED <<mode, infile_list, loc, acc, results, csv, printed, failed,
                   histVars, extractVars, cropVars, decodeVars>>

\* The row of an image: its name as analyze_file returned it (None when no
\* branch matched), its place in the list (history), its statistics.
Row(a, st) ==
    [infile |-> IF analyze_file_branch(CurrentName) = "none" THEN Name("None", "")
                ELSE CurrentName,
     idx |-> fi, stats |-> st]

\* analyze_files: parse_histograms and results.append (lines 465-499).
RecordStats ==
    /\ pc = "returned"
    /\ mode = "files"
    /\ ~acc["R"].none
    /\ LET p == parse_histograms(acc)
       IN /\ pc' = IF p.ok THEN "next_file" ELSE "crashed"
          /\ failed' = ~p.ok
          /\ results' = IF p.ok THEN Append(results, Row(acc, p.stats)) ELSE results
          /\ fi' = IF p.ok THEN fi + 1 ELSE fi
    /\ UNCHANGED <<mode, infile_list, loc, acc, csv, printed,
                   histVars, extractVars, cropVars, decodeVars>>

\* main on one file: parse_histograms and print (lines 764-782).
PrintStats ==
    /\ pc = "returned"
    /\ mode = "single"
    /\ LET p == parse_histograms(acc)
       IN /\ pc' = IF p.ok THEN "done" ELSE "crashed"
          /\ failed' = ~p.ok
          /\ printed' = IF p.ok THEN Append(printed, Row(acc, p.stats)) ELSE printed
    /\ UNCHANGED <<mode, infile_list, fi, loc, acc, results, csv,
                   histVars, extractVars, cropVars, decodeVars>>

\* analyze_files after the loop: write the CSV file (lines 500-524).
WriteCsv ==
    /\ pc = "next_file"
    /\ fi > Len(infile_list)
    /\ pc' = "done"
    /\ csv' = [written |-> TRUE, rows |-> results]
    /\ UNCHANGED <<mode, infile_list, fi, loc, acc, results, printed, failed,
                   histVars, extractVars, cropVars, decodeVars>>

ReturnCodes == {0, 1}

Next ==
    \/ AnalyzeFile
    \/ \E rcs \in [1..5 -> ReturnCodes] : AnalyzeConverted(rcs)
    \/ \E rc \in ReturnCodes : ListItems(rc)
    \/ GridSkip
    \/ \E rc \in ReturnCodes : GridParse(rc)
    \/ GridDone
    \/ TileSkip
    \/ \E rc \in ReturnCodes : TileMp4box(rc)
    \/ \E rc \in ReturnCodes : TileToY4m(rc)
    \/ \E rc \in ReturnCodes : TileProbe(rc)
    \/ \E rc \in ReturnCodes : TileCrop(rc)
    \/ \E rc_probe \in ReturnCodes, rc_ffmpeg \in ReturnCodes : TileYuv(rc_probe, rc_ffmpeg)
    \/ \E rc \in ReturnCodes : TileRgba(rc)
    \/ HeicReturn
    \/ SkipUnsupported
    \/ RecordStats
    \/ PrintStats
    \/ WriteCsv

Spec == Init /\ [][Next]_vars

\* ------------------------------------------------------------------ SpecHist

\* HistogramCounter() (lines 135-136): three empty accumulators.
InitHist ==
    /\ hist = [i \in Accs |-> EmptyBins]
    /\ raw = [i \in Accs |-> <<>>]
    /\ hphase = "build"
    /\ stats = NoStats
    /\ orders = NoOrders
    /\ lastOp = "none"
    /\ ExtractIdle /\ CropIdle /\ BatchIdle /\ DecodeIdle

TotalLen == Len(raw[1]) + Len(raw[2]) + Len(raw[3])

\* hist[i].add(v)
HistAdd(i, v) ==
    /\ hphase = "build"
    /\ TotalLen < MaxLen
    /\ hist' = [hist EXCEPT ![i] = HistogramCounter_add(hist[i], v)]
    /\ raw' = [raw EXCEPT ![i] = Append(raw[i], v)]
    /\ lastOp' = "add"
    /\ UNCHANGED <<hphase, stats, orders, extractVars, cropVars, batchVars, decodeVars>>

\* hist[i].append(hist[j]) for two distinct objects.
HistAppend(i, j) ==
    /\ hphase = "build"
    /\ i # j
    /\ TotalLen + Len(raw[j]) <= MaxLen
    /\ LET r == HistogramCounter_append(hist[i], hist[j])
       IN hist' = [hist EXCEPT ![i] = r.self, ![j] = r.other]
    /\ raw' = [raw EXCEPT ![i] = raw[i] \o raw[j]]
    /\ lastOp' = "append"
    /\ UNCHANGED <<hphase, stats, orders, extractVars, cropVars, batchVars, decodeVars>>

\* hist[i].get_mean() and hist[i].get_stddev() (as parse_histograms calls them).
HistStats(i) ==
    /\ hphase = "build"
    /\ hphase' = "stats"
    /\ stats' = [acc |-> i,
                 mean |-> HistogramCounter_get_mean(hist[i]),
                 stddev |-> HistogramCounter_get_stddev(hist[i])]
    /\ UNCHANGED <<hist, raw, orders, lastOp, extractVars, cropVars, batchVars, decodeVars>>

\* x.append(y) then .append(z): the receiver's bins.
Merge2(x, y, z) ==
    HistogramCounter_append(HistogramCounter_append(x, y).self, z).self

\* The three accumulators merged in different orders, each on fresh copies:
\* a.append(b); a.append(c)   /   b.append(c); a.append(b)   /  ...
HistMergeOrders ==
    /\ hphase = "build"
    /\ hphase' = "merged"
    /\ LET a == hist[1]
           b == hist[2]
           c == hist[3]
           bc == HistogramCounter_append(b, c)
       IN orders' = [ab_c |-> Merge2(a, b, c),
                     a_bc |-> HistogramCounter_append(a, bc.self).self,
                     ac_b |-> Merge2(a, c, b),
                     ba_c |-> Merge2(b, a, c),
                     cb_a |-> Merge2(c, b, a),
                     argB |-> HistogramCounter_append(a, b).other,
                     argC |-> bc.other]
    /\ UNCHANGED <<hist, raw, stats, lastOp, extractVars, cropVars, batchVars, decodeVars>>

NextHist ==
    \/ \E i \in Accs, v \in Samples : HistAdd(i, v)
    \/ \E i \in Accs, j \in Accs : HistAppend(i, j)
    \/ \E i \in Accs : HistStats(i)
    \/ HistMergeOrders

SpecHist == InitHist /\ [][NextHist]_vars

\* ------------------------------------------------------------------ SpecDecode

\* What `adb shell stat -c %s path` may answer while the device's file is
\* being written: a size (nothing yet, one byte short, the expected size, one
\* byte more), or a failure, with "No such file or directory" or another error.
PollAnswers == {"empty", "short", "exact", "long", "no_such_file", "error"}

\* What run() returns for the stat that answers a, expected >= 1 being the
\* size waited for.
PollResult(cmd, a, expected) ==
    CASE a = "empty" -> CommandResult(cmd, 0, FALSE, 0)
      [] a = "short" -> CommandResult(cmd, 0, FALSE, expected - 1)
      [] a = "exact" -> CommandResult(cmd, 0, FALSE, expected)
      [] a = "long" -> CommandResult(cmd, 0, FALSE, expected + 1)
      [] a = "no_such_file" -> CommandResult(cmd, 1, TRUE, 0)
      [] a = "error" -> CommandResult(cmd, 1, FALSE, 0)

\* One turn of the first while loop (lines 537-545): the place the code goes
\* on to after the stat returned.
wait_infile(returncode, no_such_file, size, expected) ==
    assert_returncode(returncode, IF size = expected THEN "launch" ELSE "wait_in")

\* A slip in the second loop: any answered size ends the wait.
wait_outfile_any_size(returncode, no_such_file, size, expected) ==
    IF returncode # 0 /\ no_such_file THEN "wait_out"
    ELSE assert_returncode(returncode, "pull")

\* One turn of the second while loop (lines 563-573).
wait_outfile(returncode, no_such_file, size, expected) ==
    IF returncode # 0 /\ no_such_file THEN "wait_out"
    ELSE assert_returncode(returncode, IF size = expected THEN "pull" ELSE "wait_out")

\* decode_heic_using_imgapp(infile, ...) about to run on a local file.
InitDecode ==
    /\ dinfile \in [st_size : 1..MaxStat, width : 1..MaxDim, height : 1..MaxDim]
    /\ dpc = "push"
    /\ expected_size = 0
    /\ dlast = NoCommand
    /\ dsteps = <<>>
    /\ dseen = NothingSeen
    /\ HistIdle /\ ExtractIdle /\ CropIdle /\ BatchIdle

\* 1. adb push, and expected_size = os.stat(infile).st_size (lines 529-536).
Push(rc) ==
    /\ dpc = "push"
    /\ dlast' = CommandResult("push", rc, FALSE, 0)
    /\ dsteps' = Append(dsteps, "push")
    /\ dpc' = assert_returncode(rc, "wait_in")
    /\ expected_size' = IF rc = 0 THEN dinfile.st_size ELSE expected_size
    /\ UNCHANGED <<dinfile, dseen, histVars, extractVars, cropVars, batchVars>>

\* 2. one stat of the pushed file (lines 538-545).
PollInfile(a) ==
    /\ dpc = "wait_in"
    /\ LET res == PollResult("stat_in", a, expected_size)
       IN /\ dlast' = res
          /\ dpc' = wait_infile(res.returncode, res.no_such_file, res.size, expected_size)
          /\ dseen' = [dseen EXCEPT !.infile =
                          @ \/ (res.returncode = 0 /\ res.size = dinfile.st_size)]
    /\ UNCHANGED <<dinfile, expected_size, dsteps, histVars, extractVars, cropVars, batchVars>>

\* 3. adb shell am start ... com.facebook.imgapp/.MainActivity (lines 548-558).
Launch(rc) ==
    /\ dpc = "launch"
    /\ dlast' = CommandResult("launch", rc, FALSE, 0)
    /\ dsteps' = Append(dsteps, "launch")
    /\ dpc' = assert_returncode(rc, "resolution")
    /\ UNCHANGED <<dinfile, expected_size, dseen, histVars, extractVars, cropVars, batchVars>>

\* 4. get_image_resolution(infile) and expected_size = 4 * width * height
\* (lines 561-562).
Resolution(rc) ==
    /\ dpc = "resolution"
    /\ dlast' = CommandResult("resolution", rc, FALSE, 0)
    /\ dpc' = assert_returncode(rc, "wait_out")
    /\ expected_size' = IF rc = 0 THEN 4 * dinfile.width * dinfile.height
                        ELSE expected_size
    /\ UNCHANGED <<dinfile, dsteps, dseen, histVars, extractVars, cropVars, batchVars>>

\* 4. one stat of the output file (lines 564-573).
PollOutfile(a) ==
    /\ dpc = "wait_out"
    /\ LET res == PollResult("stat_out", a, expected_size)
       IN /\ dlast' = res
          /\ dpc' = wait_outfile(res.returncode, res.no_such_file, res.size, expected_size)
          /\ dseen' = [dseen EXCEPT
                          !.outfile = @ \/ (res.returncode = 0
                                            /\ res.size = 4 * dinfile.width * dinfile.height),
                          !.no_such_file = @ \/ (res.returncode # 0 /\ res.no_such_file)]
    /\ UNCHANGED <<dinfile, expected_size, dsteps, histVars, extractVars, cropVars, batchVars>>

\* 5. adb pull (lines 576-578).
Pull(rc) ==
    /\ dpc = "pull"
    /\ dlast' = CommandResult("pull", rc, FALSE, 0)
    /\ dsteps' = Append(dsteps, "pull")
    /\ dpc' = assert_returncode(rc, "done")
    /\ UNCHANGED <<dinfile, expected_size, dseen, histVars, extractVars, cropVars, batchVars>>

NextDecode ==
    \/ \E rc \in ReturnCodes : Push(rc)
    \/ \E a \in PollAnswers : PollInfile(a)
    \/ \E rc \in ReturnCodes : Launch(rc)
    \/ \E rc \in ReturnCodes : Resolution(rc)
    \/ \E a \in PollAnswers : PollOutfile(a)
    \/ \E rc \in ReturnCodes : Pull(rc)

SpecDecode == InitDecode /\ [][NextDecode]_vars

\* ------------------------------------------------------------------ claims

\* The sum of the counts of a HistogramCounter's bins.
RECURSIVE BinTotalOver(_, _)
BinTotalOver(bins, keys) ==
    IF keys = {} THEN 0
    ELSE LET k == CHOOSE x \in keys : TRUE
         IN bins[k] + BinTotalOver(bins, keys \ {k})
BinTotal(bins) == BinTotalOver(bins, DOMAIN bins)

\* The bins of a sample sequence: value -> number of occurrences.
BinsOf(s) == [v \in Range(s) |-> Cardinality({i \in 1..Len(s) : s[i] = v})]

\* C6: merging the accumulators a, b, c in any order (a+b then +c, b+c merged
\* into a, a+c then +b, b+a then +c, c+b then +a) yields the same value->count
\* mapping, the bins of all their samples together, and the argument of a merge
\* is left unchanged.
C6_MergeOrderIndependent ==
    hphase = "merged" =>
        /\ orders.ab_c = orders.a_bc
        /\ orders.ab_c = orders.ac_b
        /\ orders.ab_c = orders.ba_c
        /\ orders.ab_c = orders.cb_a
        /\ orders.ab_c = BinsOf(raw[1] \o raw[2] \o raw[3])
        /\ orders.argB = hist[2]
        /\ orders.argC = hist[3]

\* Three non-empty accumulators merged, a and b sharing a value and c holding
\* a value that a lacks.
C6_Witness ==
    /\ hphase = "merged"
    /\ \A i \in Accs : raw[i] # <<>>
    /\ DOMAIN hist[1] \cap DOMAIN hist[2] # {}
    /\ DOMAIN hist[3] \ DOMAIN hist[1] # {}
    /\ hist[2] # hist[3]

\* C7: after any sequence of add and append on accumulators that started
\* empty, the sum of the bin counts equals the number of samples folded in,
\* every key is a value that was added, and every stored count is positive.
C7_CountsMatchSamples ==
    \A i \in Accs :
        /\ BinTotal(hist[i]) = Len(raw[i])
        /\ DOMAIN hist[i] = Range(raw[i])
        /\ \A k \in DOMAIN hist[i] : hist[i][k] > 0

\* An accumulator that has just received a non-empty merge on top of its own
\* samples, with a bin holding more than one sample.
C7_Witness ==
    /\ lastOp = "append"
    /\ \E i \in Accs, j \in Accs :
          /\ i # j
          /\ raw[j] # <<>>
          /\ Len(raw[i]) > Len(raw[j])
          /\ \E k \in DOMAIN hist[i] : hist[i][k] >= 2
          /\ Cardinality(DOMAIN hist[i]) >= 2

IsConstantSeq(s) == \A i \in 1..Len(s) : s[i] = s[1]

\* C8: for a non-empty sample sequence get_mean() is (sum of the raw values) /
\* (number of values), numerator and denominator both; n copies of one value
\* v give mean v and a zero sum of squared deviations.
C8_MeanMatchesRawSequence ==
    (hphase = "stats" /\ raw[stats.acc] # <<>>) =>
        LET s == raw[stats.acc]
        IN /\ stats.mean.ok
           /\ stats.mean.s = SeqSum(s)
           /\ stats.mean.number_sum = Len(s)
           /\ stats.stddev.ok
           /\ stats.stddev.number_sum = Len(s)
           /\ IsConstantSeq(s) =>
                 /\ stats.mean.s = s[1] * stats.mean.number_sum
                 /\ stats.stddev.tScaled = 0

\* Statistics taken of three or more samples with a repeated value and two
\* distinct values.
C8_Witness ==
    /\ hphase = "stats"
    /\ Len(raw[stats.acc]) >= 3
    /\ Cardinality(Range(raw[stats.acc])) = 2
    /\ stats.mean.ok
    /\ stats.stddev.tScaled > 0

\* Statistics taken of several copies of one non-zero value.
C8_WitnessConstant ==
    /\ hphase = "stats"
    /\ Len(raw[stats.acc]) >= 3
    /\ IsConstantSeq(raw[stats.acc])
    /\ raw[stats.acc][1] > 0

\* C1: the crop chosen for tile t of a gridded image is the most specific
\* match: last row and last column -> (remainderWidth, remainderHeight); last
\* column only -> (remainderWidth, tileHeight); last row only -> (tileWidth,
\* remainderHeight); neither -> no crop.  For the 2 x 2 grid of 200 x 200
\* tiles on a 300 x 300 canvas: tile 0 none, tile 1 (100,200), tile 2
\* (200,100), tile 3 (100,100).
C1_MostSpecificCrop ==
    (cpc = "planned" /\ cgeom.is_grid) =>
        LET columns == cgeom.columns_minus_one + 1
            rows == cgeom.rows_minus_one + 1
            lastColumn == ctile % columns = cgeom.columns_minus_one
            lastRow == ctile >= columns * cgeom.rows_minus_one
            remainderWidth == cgeom.width + cgeom.output_width - cgeom.width * columns
            remainderHeight == cgeom.height + cgeom.output_height - cgeom.height * rows
        IN /\ (lastRow /\ lastColumn) => ccrop = Crop(remainderWidth, remainderHeight)
           /\ (lastColumn /\ ~lastRow) => ccrop = Crop(remainderWidth, cgeom.height)
           /\ (lastRow /\ ~lastColumn) => ccrop = Crop(cgeom.width, remainderHeight)
           /\ (~lastRow /\ ~lastColumn) => ccrop = NoCrop
           /\ cgeom = ExampleGeom =>
                 /\ ctile = 0 => ccrop = NoCrop
                 /\ ctile = 1 => ccrop = Crop(100, 200)
                 /\ ctile = 2 => ccrop = Crop(200, 100)
                 /\ ctile = 3 => ccrop = Crop(100, 100)

\* C9: extraction of an interleaved RGBA buffer with declared dimensions
\* (width, height) fails, returning no accumulators, whenever the buffer
\* length is not exactly 4 * width * height.
C9_RgbaRejectsWrongLength ==
    (xpc = "returned" /\ xkind = "rgba" /\ Len(xcontents) # 4 * xwidth * xheight) =>
        ~xresult.ok

\* C10: extraction of a planar buffer with dimensions (width, height) feeds
\* bytes [0, w*h) to Y, [w*h, 2*w*h) to U and [2*w*h, 3*w*h) to V, each exactly
\* once, and fails for every buffer whose length is not exactly 3 * w * h.
C10_Y4mPlanesAndExactLength ==
    (xpc = "returned" /\ xkind = "y4m" /\ xrc = <<0, 0>>) =>
        LET n == xwidth * xheight
        IN IF Len(xcontents) = 3 * n
           THEN /\ xresult.ok
                /\ xresult.Y = BinsOf(SubSeq(xcontents, 1, n))
                /\ xresult.U = BinsOf(SubSeq(xcontents, n + 1, 2 * n))
                /\ xresult.V = BinsOf(SubSeq(xcontents, 2 * n + 1, 3 * n))
           ELSE ~xresult.ok

\* The crop the most-specific-match policy gives the tile of index k in the
\* grid of the locals l, as (width, height) of the region kept.
PolicyRegion(k, l) ==
    LET columns == l.columns_minus_one + 1
        rows == l.rows_minus_one + 1
        lastColumn == k % columns = l.columns_minus_one
        lastRow == k >= columns * l.rows_minus_one
        remainderWidth == l.width + l.output_width - l.width * columns
        remainderHeight == l.height + l.output_height - l.height * rows
    IN [w |-> IF lastColumn THEN remainderWidth ELSE l.width,
        h |-> IF lastRow THEN remainderHeight ELSE l.height]

\* The positions in the item list of the tiles, and a tile's 0-based rank.
TilePositions(items) == {j \in 1..Len(items) : items[j].item_type = "hvc1"}
TileRank(items, j) == Cardinality({i \in TilePositions(items) : i < j})

\* C2: the tile_id used for the crop of the k-th tile item (0-based, counting
\* only "hvc1" items, in declared order) is k, whatever other items precede it.
C2_TileIndexIsTileRank ==
    pc \in {"t_toy4m", "t_probe", "t_crop", "t_yuv", "t_rgba"} =>
        loc.tile_id = TilesBefore

\* C3: for a gridded image of equal-size constant tiles, once all tiles are
\* cropped, extracted and merged, every channel holds for each tile exactly
\* (cropped width x cropped height) samples of the tile's constant, the crop
\* being the policy's, and canvas-width x canvas-height samples in all.
C3_AreaWeightedSamples ==
    (pc = "returned" /\ loc.is_grid /\ ~failed) =>
        \A c \in Channels :
            /\ \A j \in TilePositions(loc.item_list) :
                  LET fill == loc.item_list[j].fill
                      region == PolicyRegion(TileRank(loc.item_list, j), loc)
                  IN /\ fill \in DOMAIN acc[c].bins
                     /\ acc[c].bins[fill] = region.w * region.h
            /\ BinTotal(acc[c].bins) = loc.output_width * loc.output_height

\* C4: in a batch, when the analysis of one image fails the batch still
\* proceeds to every later image and the report holds the statistics of every
\* image analyzed successfully: the run never ends before the list is
\* exhausted and the CSV file written with all the recorded rows.
C4_BatchSurvivesFailure ==
    (mode = "files" /\ pc \in {"done", "crashed"}) =>
        /\ fi > Len(infile_list)
        /\ csv.written
        /\ csv.rows = results

\* No row or line of the image being analyzed has been recorded or emitted.
NoOutputForCurrent ==
    /\ \A i \in 1..Len(results) : results[i].idx # fi
    /\ \A i \in 1..Len(csv.rows) : csv.rows[i].idx # fi
    /\ \A i \in 1..Len(printed) : printed[i].idx # fi

\* C5: once a step of an image's analysis has failed, no later step runs (no
\* step is taken from a state in which a step has failed) and no statistics
\* line or CSV row is emitted for that image.
C5_FailFast ==
    /\ [](failed => NoOutputForCurrent)
    /\ [][~failed]_vars

\* A failure in the second image of a batch, after one of its tiles was merged
\* and with tiles still to come, the first image's row recorded.
C5_Witness ==
    /\ failed
    /\ pc = "crashed"
    /\ mode = "files"
    /\ fi = 2
    /\ Len(results) = 1
    /\ acc["Y"].bins # EmptyBins
    /\ loc.ti < Len(loc.item_list)

\* The grid items of the item list the grid loop has gone through.
GridsParsed == {j \in 1..(loc.gi - 1) : j <= Len(loc.item_list)
                                        /\ loc.item_list[j].item_type = "grid"}

\* C11: of a grid descriptor, flags = 0 selects two 16-bit big-endian fields
\* and flags = 1 two 32-bit big-endian fields for output_width and
\* output_height; every other flags value makes the analysis of the image
\* fail, so that no output width or height of it reaches crop planning, also
\* when an earlier grid item of the same list parsed successfully.
C11_GridFlagsSelectFieldWidth ==
    \A j \in GridsParsed :
        LET d == loc.item_list[j].data
            flags == d[2]
            last == \A k \in GridsParsed : k <= j
        IN /\ flags \notin {0, 1} => (failed /\ pc = "crashed")
           /\ (flags = 0 /\ last /\ ~failed) =>
                 /\ loc.output_width = BigEndian(SubSeq(d, 5, 6))
                 /\ loc.output_height = BigEndian(SubSeq(d, 7, 8))
           /\ (flags = 1 /\ last /\ ~failed) =>
                 /\ loc.output_width = BigEndian(SubSeq(d, 5, 8))
                 /\ loc.output_height = BigEndian(SubSeq(d, 9, 12))

\* The remainders of a grid geometry g, and whether they are out of range.
RemainderWidth(g) == g.width + g.output_width - g.width * (g.columns_minus_one + 1)
RemainderHeight(g) == g.height + g.output_height - g.height * (g.rows_minus_one + 1)
InvalidGridGeometry(g) ==
    \/ RemainderWidth(g) <= 0 \/ RemainderWidth(g) > g.width
    \/ RemainderHeight(g) <= 0 \/ RemainderHeight(g) > g.height

\* C12: for every grid descriptor and tile size whose remainderWidth or
\* remainderHeight is <= 0 or exceeds the tile's width or height, crop planning
\* fails (it never completes with a plan for the tile), and no crop with a
\* non-positive or oversized dimension is ever selected for a tile.
C12_InvalidGeometryRejected ==
    (cpc = "planned" /\ cgeom.is_grid) =>
        /\ ~InvalidGridGeometry(cgeom)
        /\ ccrop.set => /\ ccrop.w > 0 /\ ccrop.w <= cgeom.width
                        /\ ccrop.h > 0 /\ ccrop.h <= cgeom.height

\* C13: when analyze_file returns, a raw interleaved file (name ending in
\* .rgba) has gone through the raw RGBA path with the caller's width and
\* height: R, G, B, A are accumulators of its width x height pixels and Y, U, V
\* are absent; a HEIC, JPEG or PNG input has all seven accumulators.
C13_ChannelsPerFormat ==
    (pc = "returned" /\ fi <= Len(infile_list)) =>
        LET img == CurrentImage
            raw_rgba == analyze_rgba_file(RawFile(img.width, img.height, 4, img.fill),
                                          img.width, img.height)
        IN /\ CurrentName.ext = ".rgba" =>
                 /\ \A c \in {"R", "G", "B", "A"} : acc[c] = Hist(raw_rgba[c])
                 /\ \A c \in {"Y", "U", "V"} : acc[c].none
           /\ (CurrentName.ext # ".rgba"
               /\ img.mime \in {"image/heic", "image/jpeg", "image/png"}) =>
                 \A c \in Channels : ~acc[c].none

\* The last command run was a stat that failed with "No such file or directory".
NoSuchFilePoll(cmds) ==
    dlast.cmd \in cmds /\ dlast.returncode # 0 /\ dlast.no_such_file

\* What C14 says of decode_heic_using_imgapp, a "No such file" answer being
\* retried for the polls named in retried.
\*   order: the commands start in the order push, launch, pull;
\*   the decoder is launched only after a poll has observed the device-side
\*   input size equal to the local file's size, the output pulled only after a
\*   poll has observed the output size equal to 4 * width * height;
\*   a poll answering another size is repeated, however often it has been;
\*   a "No such file" answer is retried; any other failed command aborts, it is
\*   the last command run and no pull has started unless it is the pull itself;
\*   the procedure completes only having observed both expected sizes.
DecodeOrdering(retried) ==
    /\ dsteps \in {<<>>, <<"push">>, <<"push", "launch">>, <<"push", "launch", "pull">>}
    /\ Len(dsteps) >= 2 => dseen.infile
    /\ Len(dsteps) >= 3 => dseen.outfile
    /\ (dlast.cmd = "stat_in" /\ dlast.returncode = 0 /\ dlast.size # dinfile.st_size)
          => dpc = "wait_in"
    /\ (dlast.cmd = "stat_out" /\ dlast.returncode = 0
        /\ dlast.size # 4 * dinfile.width * dinfile.height)
          => dpc = "wait_out"
    /\ NoSuchFilePoll({"stat_in"} \cap retried) => dpc = "wait_in"
    /\ NoSuchFilePoll({"stat_out"} \cap retried) => dpc = "wait_out"
    /\ (dlast.returncode # 0 /\ ~NoSuchFilePoll(retried)) =>
          /\ dpc = "crashed"
          /\ dlast.cmd # "pull" => Len(dsteps) < 3
    /\ dpc = "crashed" => dlast.returncode # 0
    /\ dpc = "done" =>
          /\ dseen.infile /\ dseen.outfile
          /\ dlast.cmd = "pull" /\ dlast.returncode = 0

\* C14 (as stated): push -> wait -> launch -> wait -> pull, the launch only
\* after a poll observed the input size, the pull only after a poll observed
\* 4 * width * height; a "No such file" poll result is retried, in either
\* wait; any other failed command aborts without pulling; completion only after
\* a poll has observed exactly the expected size, with no bound on the polls.
C14_DecodeOrderingAnyPollRetried == DecodeOrdering({"stat_in", "stat_out"})

\* C14 (amended): as above, the "No such file" result being retried for the
\* polls of the output file only; a poll of the pushed input file that fails,
\* with "No such file" too, aborts.
C14_DecodeOrdering == DecodeOrdering({"stat_out"})

\* A completed run: both waits went through, the output poll having answered
\* "No such file" at least once before the expected size.
C14_Witness ==
    /\ dpc = "done"
    /\ dseen.no_such_file
    /\ dsteps = <<"push", "launch", "pull">>
    /\ dlast = CommandResult("pull", 0, FALSE, 0)

====
